---- MODULE Spec2Model ----
(***************************************************************************)
(* folium.plugins.TimestampedGeoJson                                       *)
(*                                                                         *)
(* Two parts of src/folium/plugins/timestamped_geo_json.py are modelled:   *)
(*   - the JavaScript layer L.TimeDimension.Layer.GeoJsonCustom of the     *)
(*     template (_getFeatureTimes, _getFeatureBetweenDates), driven by     *)
(*     ticks on one feature object;                                        *)
(*   - the Python side (__init__'s embed decision and _get_self_bounds).   *)
(***************************************************************************)
EXTENDS Integers, Sequences, FiniteSets, TLC

VARIABLES
    feature,       \* the JS feature object handed to the layer
    original,      \* ghost: the feature as it was given, before any call
    window,        \* <<minTime, maxTime>> of the last tick
    result,        \* what the last JS call returned
    resolveCount,  \* probe: how often the time source was resolved
    parseCount,    \* probe: how many Date.parse calls were made
    lastParsed,    \* probe: Date.parse calls made by the last call
    ticks,         \* number of JS calls made so far
    tza,           \* the browser's time zone: minutes local time is ahead of UTC
    dataKind,      \* Python: the kind of `data` given to __init__
    rawData,       \* Python: the data given to __init__
    embed,         \* Python: self.embed
    selfData,      \* Python: self.data
    pc,            \* Python: position inside _get_self_bounds
    features,      \* Python: data['features'] after normalisation
    fi,            \* Python: index of the feature being folded
    pj,            \* Python: index of the next point of that feature
    bounds,        \* Python: the running bounds
    error          \* Python: the exception raised, if any

vars == <<feature, original, window, result, resolveCount, parseCount, lastParsed, ticks,
          tza, dataKind, rawData, embed, selfData, pc, features, fi, pj, bounds, error>>

jsVars == <<feature, original, window, result, resolveCount, parseCount, lastParsed, ticks,
            tza>>

pyVars == <<dataKind, rawData, embed, selfData, pc, features, fi, pj, bounds, error>>

-----------------------------------------------------------------------------
(* Bounds of the model.                                                    *)

\* longest timestamp array of a feature
MaxLen == 3

\* number of JS calls made on the feature object
MaxTicks == 2

\* most features in a collection
MaxFeatures == 2

\* most points in one geometry
MaxPoints == 2

-----------------------------------------------------------------------------
(* JavaScript values.  A number of milliseconds is held exactly as two     *)
(* limbs, hi * 10^9 + lo with 0 <= lo < 10^9: JS numbers are exact far     *)
(* beyond the 32 bits of a model integer, the sentinel of line 129 needs   *)
(* 40 bits and the largest time value 54.  t is "num", "nan" (Date.parse's *)
(* NaN) or "str"; a string is the sequence of its UTF-16 code units, so    *)
(* "1970" is <<49, 57, 55, 48>>.                                            *)

Num(h, l) == [t |-> "num", hi |-> h, lo |-> l, s |-> <<>>]

Ms(n) == Num(n \div 1000000000, n % 1000000000)

NaN == [t |-> "nan", hi |-> 0, lo |-> 0, s |-> <<>>]

Str(chars) == [t |-> "str", hi |-> 0, lo |-> 0, s |-> chars]

\* x > y on JS numbers: false whenever an operand is NaN
JsGt(x, y) ==
    /\ x.t = "num"
    /\ y.t = "num"
    /\ (x.hi > y.hi \/ (x.hi = y.hi /\ x.lo > y.lo))

\* x < y on JS numbers
JsLt(x, y) == JsGt(y, x)

\* x <= y on JS numbers
JsLe(x, y) == x.t = "num" /\ y.t = "num" /\ ~JsGt(x, y)

\* typeof time == 'string' || time instanceof String
IsString(x) == x.t = "str"

Zero == Ms(0)

\* minTime = -999999999999  (= -1000 * 10^9 + 1)
Sentinel == Num(-1000, 1)

\* x + y on two numbers
NumAdd(x, y) ==
    Num(x.hi + y.hi + (x.lo + y.lo) \div 1000000000, (x.lo + y.lo) % 1000000000)

\* -x
NumNeg(x) ==
    IF x.lo = 0 THEN Num(0 - x.hi, 0) ELSE Num(0 - x.hi - 1, 1000000000 - x.lo)

-----------------------------------------------------------------------------
(* time.trim(), line 119.  String.prototype.trim strips the WhiteSpace and *)
(* LineTerminator code points of ECMAScript from both ends: TAB, LF, VT,   *)
(* FF, CR, SP, NBSP, U+1680, U+2000..U+200A, U+2028, U+2029, U+202F,       *)
(* U+205F, U+3000 and U+FEFF.                                              *)

Whitespace ==
    {9, 10, 11, 12, 13, 32, 160, 5760, 8232, 8233, 8239, 8287, 12288, 65279}
    \cup (8192..8202)

RECURSIVE TrimLeft(_)
TrimLeft(s) ==
    IF s # <<>> /\ Head(s) \in Whitespace THEN TrimLeft(Tail(s)) ELSE s

RECURSIVE TrimRight(_)
TrimRight(s) ==
    IF s # <<>> /\ s[Len(s)] \in Whitespace
    THEN TrimRight(SubSeq(s, 1, Len(s) - 1))
    ELSE s

\* String.prototype.trim
Trim(s) == TrimRight(TrimLeft(s))

-----------------------------------------------------------------------------
(* Date.parse, line 119, as the V8 engine (Chrome, Node) computes it: the  *)
(* string is cut into tokens, read as an ES5 date-time string as far as    *)
(* that goes, and the rest is handed to the legacy parser; the day, time   *)
(* and zone collected are then turned into a time value.  A date-only ES5  *)
(* string is UTC; any other string without a zone is local time, tza       *)
(* minutes ahead of UTC (a zone without daylight saving).                  *)

IsAsciiDigit(c) == c >= 48 /\ c <= 57

\* the line terminators among Whitespace: LF, CR, U+2028 and U+2029
LineTerminators == {10, 13, 8232, 8233}

\* a character of a word: 'A' or above, and not white space; the line
\* terminators U+2028 and U+2029 are not white space to this test
IsWordChar(c) == c >= 65 /\ c \notin (Whitespace \ LineTerminators)

\* c | 0x20
AsciiAlphaToLower(c) == IF (c \div 32) % 2 = 1 THEN c ELSE c + 32

Token(k, v, len, ty) == [k |-> k, v |-> v, len |-> len, ty |-> ty]

EndOfInput == Token("end", 0, 0, "")

Unknown == Token("unknown", 0, 0, "")

Keyword(pre, ty, v) == [pre |-> pre, ty |-> ty, v |-> v]

\* the words known to the parser, by their first three characters
KeywordTable ==
    {Keyword(<<106, 97, 110>>, "month", 1),      \* jan
     Keyword(<<102, 101, 98>>, "month", 2),      \* feb
     Keyword(<<109, 97, 114>>, "month", 3),      \* mar
     Keyword(<<97, 112, 114>>, "month", 4),      \* apr
     Keyword(<<109, 97, 121>>, "month", 5),      \* may
     Keyword(<<106, 117, 110>>, "month", 6),     \* jun
     Keyword(<<106, 117, 108>>, "month", 7),     \* jul
     Keyword(<<97, 117, 103>>, "month", 8),      \* aug
     Keyword(<<115, 101, 112>>, "month", 9),     \* sep
     Keyword(<<111, 99, 116>>, "month", 10),     \* oct
     Keyword(<<110, 111, 118>>, "month", 11),    \* nov
     Keyword(<<100, 101, 99>>, "month", 12),     \* dec
     Keyword(<<97, 109, 0>>, "ampm", 0),         \* am
     Keyword(<<112, 109, 0>>, "ampm", 12),       \* pm
     Keyword(<<117, 116, 0>>, "zone", 0),        \* ut
     Keyword(<<117, 116, 99>>, "zone", 0),       \* utc
     Keyword(<<122, 0, 0>>, "zone", 0),          \* z
     Keyword(<<103, 109, 116>>, "zone", 0),      \* gmt
     Keyword(<<99, 100, 116>>, "zone", -5),      \* cdt
     Keyword(<<99, 115, 116>>, "zone", -6),      \* cst
     Keyword(<<101, 100, 116>>, "zone", -4),     \* edt
     Keyword(<<101, 115, 116>>, "zone", -5),     \* est
     Keyword(<<109, 100, 116>>, "zone", -6),     \* mdt
     Keyword(<<109, 115, 116>>, "zone", -7),     \* mst
     Keyword(<<112, 100, 116>>, "zone", -7),     \* pdt
     Keyword(<<112, 115, 116>>, "zone", -8),     \* pst
     Keyword(<<116, 0, 0>>, "sep", 0)}           \* t

\* a word longer than three characters is a keyword only as a month name
Lookup(pre, len) ==
    LET hits == {e \in KeywordTable :
                    e.pre = pre /\ (len <= 3 \/ e.ty = "month")}
    IN  IF hits = {} THEN Keyword(pre, "invalid", 0) ELSE CHOOSE e \in hits : TRUE

\* the reader takes a NUL for the end of the input
RECURSIVE UpToNul(_)
UpToNul(s) ==
    IF s = <<>> \/ Head(s) = 0 THEN <<>> ELSE <<Head(s)>> \o UpToNul(Tail(s))

RECURSIVE SkipZeros(_, _)
SkipZeros(s, i) == IF i <= Len(s) /\ s[i] = 48 THEN SkipZeros(s, i + 1) ELSE i

\* the digits from i on: <<value of the first nine, position after them>>
RECURSIVE ReadDigits(_, _, _, _)
ReadDigits(s, i, n, k) ==
    IF i <= Len(s) /\ IsAsciiDigit(s[i])
    THEN ReadDigits(s, i + 1, IF k < 9 THEN n * 10 + s[i] - 48 ELSE n, k + 1)
    ELSE <<n, i>>

RECURSIVE WordEnd(_, _)
WordEnd(s, i) == IF i <= Len(s) /\ IsWordChar(s[i]) THEN WordEnd(s, i + 1) ELSE i

\* the first three characters of the word s[i..j-1], lower-cased, 0-padded
Prefix(s, i, j) ==
    [p \in 1..3 |-> IF i + p - 1 < j THEN AsciiAlphaToLower(s[i + p - 1]) ELSE 0]

\* the position after the parenthesised text that starts at i
RECURSIVE ParenEnd(_, _, _)
ParenEnd(s, i, balance) ==
    LET b == IF s[i] = 41 THEN balance - 1
             ELSE IF s[i] = 40 THEN balance + 1
             ELSE balance
    IN  IF b > 0 /\ i + 1 <= Len(s) THEN ParenEnd(s, i + 1, b) ELSE i + 1

\* the token at position i: <<token, position after it>>
ScanToken(s, i) ==
    LET c == s[i]
    IN  IF IsAsciiDigit(c)
        THEN LET r == ReadDigits(s, SkipZeros(s, i), 0, 0)
             IN  <<Token("number", r[1], r[2] - i, ""), r[2]>>
        ELSE IF c \in {58, 45, 43, 46, 41}
        THEN <<Token("symbol", c, 1, ""), i + 1>>
        ELSE IF IsWordChar(c)
        THEN LET j == WordEnd(s, i)
                 e == Lookup(Prefix(s, i, j), j - i)
             IN  <<Token("keyword", e.v, j - i, e.ty), j>>
        ELSE IF c \in Whitespace
        THEN <<Token("space", 0, 1, ""), i + 1>>
        ELSE IF c = 40
        THEN <<Unknown, ParenEnd(s, i, 0)>>
        ELSE <<Unknown, i + 1>>

\* the tokens of s from position i on, closed by EndOfInput
RECURSIVE Tokens(_, _)
Tokens(s, i) ==
    IF i > Len(s) THEN <<EndOfInput>>
    ELSE LET r == ScanToken(s, i) IN <<r[1]>> \o Tokens(s, r[2])

IsEnd(t) == t.k = "end"

IsNumber(t) == t.k = "number"

IsFixedNumber(t, n) == t.k = "number" /\ t.len = n

IsSymbol(t, c) == t.k = "symbol" /\ t.v = c

\* '+' or '-'
IsAsciiSign(t) == t.k = "symbol" /\ t.v \in {43, 45}

IsSeparator(t) == t.k = "keyword" /\ t.ty = "sep"

IsKeywordZ(t) == t.k = "keyword" /\ t.ty = "zone" /\ t.len = 1

IsMonth(n) == n >= 1 /\ n <= 12

IsDay(n) == n >= 1 /\ n <= 31

IsHour(n) == n >= 0 /\ n <= 23

IsHour12(n) == n >= 0 /\ n <= 12

IsMinute(n) == n >= 0 /\ n <= 59

IsSecond(n) == n >= 0 /\ n <= 59

IsMillisecond(n) == n >= 0 /\ n <= 999

RECURSIVE Pow10(_)
Pow10(n) == IF n = 0 THEN 1 ELSE 10 * Pow10(n - 1)

\* the digits after the point as milliseconds: the first three count
ReadMilliseconds(t) ==
    IF t.len = 1 THEN t.v * 100
    ELSE IF t.len = 2 THEN t.v * 10
    ELSE IF t.len > 3 THEN t.v \div Pow10((IF t.len > 9 THEN 9 ELSE t.len) - 3)
    ELSE t.v

(* What the parser has collected: the day composer (day, named, iso), the  *)
(* time composer (time, hoff) and the zone composer tz.  named 0, hoff -1, *)
(* sign 0, hour -1 and minute -1 stand for "not set".                      *)

NoZone == [sign |-> 0, hour |-> -1, minute |-> -1]

\* TimeZoneComposer::Set
ZoneOf(hours) ==
    [sign |-> IF hours < 0 THEN -1 ELSE 1,
     hour |-> IF hours < 0 THEN 0 - hours ELSE hours,
     minute |-> 0]

IsUTC(tz) == tz.hour = 0 /\ tz.minute = 0

NothingRead ==
    [day |-> <<>>, named |-> 0, iso |-> FALSE, time |-> <<>>, hoff |-> -1,
     tz |-> NoZone]

\* TimeComposer::IsExpecting
TimeIsExpecting(time, n) ==
    \/ Len(time) = 1 /\ IsMinute(n)
    \/ Len(time) = 2 /\ IsSecond(n)
    \/ Len(time) = 3 /\ IsMillisecond(n)

PadTime(time) == time \o [i \in 1..(4 - Len(time)) |-> 0]

\* TimeComposer::AddFinal; a fifth number is dropped
TimeAddFinal(time, n) ==
    IF Len(time) >= 4 THEN time ELSE PadTime(Append(time, n))

\* where a parser stands: st is "go" (on with the ES5 string), "done" (the
\* whole string was an ES5 string), "resume" (the legacy parser goes on at
\* token i) or "invalid"; p is what has been collected
Res(st, i, p) == [st |-> st, i |-> i, p |-> p]

Invalid == Res("invalid", 0, NothingRead)

\* [-+]yyyyyy or yyyy
ParseES5Year(tk) ==
    IF IsAsciiSign(tk[1])
    THEN IF ~IsFixedNumber(tk[2], 6) THEN Res("resume", 1, NothingRead)
         ELSE IF tk[1].v = 45 /\ tk[2].v = 0 THEN Res("resume", 3, NothingRead)
         ELSE Res("go", 3, [NothingRead EXCEPT
                               !.day = <<(IF tk[1].v = 45 THEN -1 ELSE 1) * tk[2].v>>])
    ELSE IF IsFixedNumber(tk[1], 4)
    THEN Res("go", 2, [NothingRead EXCEPT !.day = <<tk[1].v>>])
    ELSE Res("resume", 1, NothingRead)

\* [-MM[-DD]]
ParseES5MonthDay(tk, r) ==
    LET i == r.i
    IN  IF ~IsSymbol(tk[i], 45) THEN r
        ELSE IF ~(IsFixedNumber(tk[i + 1], 2) /\ IsMonth(tk[i + 1].v))
        THEN Res("resume", i + 1, r.p)
        ELSE LET p1 == [r.p EXCEPT !.day = Append(@, tk[i + 1].v)]
             IN  IF ~IsSymbol(tk[i + 2], 45) THEN Res("go", i + 2, p1)
                 ELSE IF ~(IsFixedNumber(tk[i + 3], 2) /\ IsDay(tk[i + 3].v))
                 THEN Res("resume", i + 3, p1)
                 ELSE Res("go", i + 4, [p1 EXCEPT !.day = Append(@, tk[i + 3].v)])

\* 'Z' | [+-]HH':'mm | [+-]HHmm
ParseES5Zone(tk, r) ==
    LET i == r.i
    IN  IF r.st = "invalid" THEN Invalid
        ELSE IF IsKeywordZ(tk[i])
        THEN Res("go", i + 1, [r.p EXCEPT !.tz = ZoneOf(0)])
        ELSE IF ~IsAsciiSign(tk[i]) THEN r
        ELSE IF IsFixedNumber(tk[i + 1], 4)
        THEN IF ~(IsHour(tk[i + 1].v \div 100) /\ IsMinute(tk[i + 1].v % 100))
             THEN Invalid
             ELSE Res("go", i + 2,
                      [r.p EXCEPT !.tz = [sign |-> IF tk[i].v = 43 THEN 1 ELSE -1,
                                          hour |-> tk[i + 1].v \div 100,
                                          minute |-> tk[i + 1].v % 100]])
        ELSE IF ~(IsFixedNumber(tk[i + 1], 2) /\ IsHour(tk[i + 1].v)) THEN Invalid
        ELSE IF ~IsSymbol(tk[i + 2], 58) THEN Invalid
        ELSE IF ~(IsFixedNumber(tk[i + 3], 2) /\ IsMinute(tk[i + 3].v)) THEN Invalid
        ELSE Res("go", i + 4,
                 [r.p EXCEPT !.tz = [sign |-> IF tk[i].v = 43 THEN 1 ELSE -1,
                                     hour |-> tk[i + 1].v,
                                     minute |-> tk[i + 3].v]])

\* HH':'mm[':'ss['.'sss]] from token i on; 24 is allowed as 24:00:00.000 only
ParseES5TimeFields(tk, i, p) ==
    LET h   == tk[i]
        m   == tk[i + 2]
        sec == tk[i + 4]
        ms  == tk[i + 6]
    IN  IF ~(IsFixedNumber(h, 2) /\ h.v >= 0 /\ h.v <= 24) THEN Invalid
        ELSE IF ~IsSymbol(tk[i + 1], 58) THEN Invalid
        ELSE IF ~(IsFixedNumber(m, 2) /\ IsMinute(m.v) /\ ~(h.v = 24 /\ m.v > 0))
        THEN Invalid
        ELSE IF ~IsSymbol(tk[i + 3], 58)
        THEN Res("go", i + 3, [p EXCEPT !.time = <<h.v, m.v>>])
        ELSE IF ~(IsFixedNumber(sec, 2) /\ IsSecond(sec.v) /\ ~(h.v = 24 /\ sec.v > 0))
        THEN Invalid
        ELSE IF ~IsSymbol(tk[i + 5], 46)
        THEN Res("go", i + 5, [p EXCEPT !.time = <<h.v, m.v, sec.v>>])
        ELSE IF ~(IsNumber(ms) /\ ~(h.v = 24 /\ ms.v > 0)) THEN Invalid
        ELSE Res("go", i + 7,
                 [p EXCEPT !.time = <<h.v, m.v, sec.v, ReadMilliseconds(ms)>>])

\* after the time and the zone nothing but the end of the input may follow
ParseES5End(tk, r) ==
    IF r.st = "invalid" THEN Invalid
    ELSE IF ~IsEnd(tk[r.i]) THEN Invalid
    ELSE Res("done", r.i, r.p)

\* ['T' time [zone]]
ParseES5Time(tk, r) ==
    IF ~IsSeparator(tk[r.i])
    THEN IF IsEnd(tk[r.i]) THEN Res("done", r.i, r.p) ELSE Res("resume", r.i, r.p)
    ELSE ParseES5End(tk, ParseES5Zone(tk, ParseES5TimeFields(tk, r.i + 1, r.p)))

\* a whole ES5 date-time string: without a zone a date-only string is UTC
ParseES5Done(r) ==
    IF r.st # "done" THEN r
    ELSE Res("done", r.i,
             [r.p EXCEPT !.iso = TRUE,
                         !.tz = IF r.p.tz.hour = -1 /\ r.p.time = <<>>
                                THEN ZoneOf(0) ELSE @])

\* the date is over: on with the time unless the legacy parser takes over
ParseES5AfterDate(tk, r) ==
    IF r.st = "resume" THEN r ELSE ParseES5Done(ParseES5Time(tk, r))

\* the year is over: on with the month and the day
ParseES5AfterYear(tk, r) ==
    IF r.st = "resume" THEN r ELSE ParseES5AfterDate(tk, ParseES5MonthDay(tk, r))

\* the ES5 date-time string at the head of the tokens
ParseES5DateTime(tk) == ParseES5AfterYear(tk, ParseES5Year(tk))

\* the outcome of a step of the legacy parser: the token to go on with
Step(ok, i, p) == [ok |-> ok, i |-> i, p |-> p]

\* a number at token i: a time field before ':' or '.', else the minutes of
\* a zone, else a time field the time is waiting for, else a day field
LegacyNumber(tk, i, p) ==
    LET n == tk[i].v
        j == i + 1
    IN  IF IsSymbol(tk[j], 58)
        THEN IF IsSymbol(tk[j + 1], 58)
             THEN IF p.time # <<>> THEN Step(FALSE, j, p)
                  ELSE Step(TRUE, j + 2, [p EXCEPT !.time = <<n, 0>>])
             ELSE IF Len(p.time) >= 4 THEN Step(FALSE, j, p)
                  ELSE Step(TRUE, IF IsSymbol(tk[j + 1], 46) THEN j + 2 ELSE j + 1,
                            [p EXCEPT !.time = Append(@, n)])
        ELSE LET dot == IsSymbol(tk[j], 46)
                 k   == IF dot THEN j + 1 ELSE j
             IN  IF dot /\ TimeIsExpecting(p.time, n)
                 THEN IF ~IsNumber(tk[k]) THEN Step(FALSE, k, p)
                      ELSE Step(TRUE, k + 1,
                                [p EXCEPT !.time =
                                    TimeAddFinal(Append(@, n), ReadMilliseconds(tk[k]))])
                 ELSE IF p.tz.hour # -1 /\ p.tz.minute = -1 /\ IsMinute(n)
                 THEN Step(TRUE, k, [p EXCEPT !.tz.minute = n])
                 ELSE IF TimeIsExpecting(p.time, n)
                 THEN IF ~(IsEnd(tk[k]) \/ tk[k].k = "space" \/ IsKeywordZ(tk[k])
                           \/ IsAsciiSign(tk[k]))
                      THEN Step(FALSE, k, p)
                      ELSE Step(TRUE, k, [p EXCEPT !.time = TimeAddFinal(@, n)])
                 ELSE IF Len(p.day) >= 3 THEN Step(FALSE, k, p)
                 ELSE Step(TRUE, IF IsSymbol(tk[k], 45) THEN k + 1 ELSE k,
                           [p EXCEPT !.day = Append(@, n)])

\* a word at token i: am or pm after a time, a month name, a zone name after
\* a number; any other word is allowed only before the first number, and not
\* right before it
LegacyKeyword(tk, i, p, hasReadNumber) ==
    LET t == tk[i]
    IN  IF t.ty = "ampm" /\ p.time # <<>>
        THEN Step(TRUE, i + 1, [p EXCEPT !.hoff = t.v])
        ELSE IF t.ty = "month"
        THEN Step(TRUE, IF IsSymbol(tk[i + 1], 45) THEN i + 2 ELSE i + 1,
                  [p EXCEPT !.named = t.v])
        ELSE IF t.ty = "zone" /\ hasReadNumber
        THEN Step(TRUE, i + 1, [p EXCEPT !.tz = ZoneOf(t.v)])
        ELSE Step(~hasReadNumber /\ ~IsNumber(tk[i + 1]), i + 1, p)

\* a sign at token i, after UTC or a time: the offset (+|-)(h|hh|hmm|hhmm|h:)
LegacyOffset(tk, i, p) ==
    LET sign   == IF tk[i].v = 43 THEN 1 ELSE -1
        has    == IsNumber(tk[i + 1])
        n      == IF has THEN tk[i + 1].v ELSE 0
        length == IF has THEN tk[i + 1].len ELSE 0
        j      == IF has THEN i + 2 ELSE i + 1
    IN  IF IsSymbol(tk[j], 58)
        THEN Step(TRUE, j, [p EXCEPT !.tz = [sign |-> sign, hour |-> n, minute |-> -1]])
        ELSE IF length \in {1, 2}
        THEN Step(TRUE, j, [p EXCEPT !.tz = [sign |-> sign, hour |-> n, minute |-> 0]])
        ELSE IF length \in {3, 4}
        THEN Step(TRUE, j, [p EXCEPT !.tz = [sign |-> sign, hour |-> n \div 100,
                                             minute |-> n % 100]])
        ELSE Step(FALSE, j, [p EXCEPT !.tz.sign = sign])

\* one turn of the legacy parser's loop, on token i; white space,
\* parenthesised text and unknown characters are skipped, a sign or ')' is
\* not once a number was read
LegacyStep(tk, i, p, hasReadNumber) ==
    IF IsNumber(tk[i]) THEN LegacyNumber(tk, i, p)
    ELSE IF tk[i].k = "keyword" THEN LegacyKeyword(tk, i, p, hasReadNumber)
    ELSE IF IsAsciiSign(tk[i]) /\ (IsUTC(p.tz) \/ p.time # <<>>)
    THEN LegacyOffset(tk, i, p)
    ELSE IF (IsAsciiSign(tk[i]) \/ IsSymbol(tk[i], 41)) /\ hasReadNumber
    THEN Step(FALSE, i, p)
    ELSE Step(TRUE, i + 1, p)

\* has_read_number after that turn
HasReadNumber(tk, i, p, hasReadNumber) ==
    \/ hasReadNumber
    \/ IsNumber(tk[i])
    \/ IsAsciiSign(tk[i]) /\ (IsUTC(p.tz) \/ p.time # <<>>)

\* the legacy parser from token i on
RECURSIVE ParseLegacy(_, _, _, _)
RECURSIVE LegacyGoOn(_, _, _)
LegacyGoOn(tk, r, hasReadNumber) ==
    IF ~r.ok THEN r ELSE ParseLegacy(tk, r.i, r.p, hasReadNumber)

ParseLegacy(tk, i, p, hasReadNumber) ==
    IF IsEnd(tk[i]) THEN Step(TRUE, i, p)
    ELSE LegacyGoOn(tk, LegacyStep(tk, i, p, hasReadNumber),
                    HasReadNumber(tk, i, p, hasReadNumber))

\* the legacy parser takes over where the ES5 parser stopped
ParseRest(tk, e) ==
    IF e.st = "invalid" THEN Step(FALSE, 0, e.p)
    ELSE IF e.st = "done" THEN Step(TRUE, e.i, e.p)
    ELSE ParseLegacy(tk, e.i, e.p, e.p.day # <<>>)

ParseTokens(tk) == ParseRest(tk, ParseES5DateTime(tk))

\* DateParser::Parse: what the two parsers collect from s
Collect(s) == ParseTokens(Tokens(UpToNul(s), 1))

\* <<year, month, day>> of the day composer, or <<>> when the month or the
\* day is out of range; years 0..49 are 20xx and 50..99 are 19xx outside ES5
\* dates
DayChecked(p, ymd) ==
    IF ~(IsMonth(ymd[2]) /\ IsDay(ymd[3])) THEN <<>>
    ELSE IF p.iso THEN ymd
    ELSE IF ymd[1] >= 0 /\ ymd[1] <= 49 THEN <<ymd[1] + 2000, ymd[2], ymd[3]>>
    ELSE IF ymd[1] >= 50 /\ ymd[1] <= 99 THEN <<ymd[1] + 1900, ymd[2], ymd[3]>>
    ELSE ymd

\* the order of the three numbers comp: year-month-day for an ES5 date and
\* when the first cannot be a day, month-day-year otherwise; with a month
\* name the first two are day and year, the year first if it cannot be a day
DayOrdered(p, comp) ==
    IF p.named = 0
    THEN IF p.iso \/ ~IsDay(comp[1])
         THEN <<comp[1], comp[2], comp[3]>>
         ELSE <<comp[3], comp[1], comp[2]>>
    ELSE IF ~IsDay(comp[1])
         THEN <<comp[1], p.named, comp[2]>>
         ELSE <<comp[2], p.named, comp[1]>>

\* DayComposer::Write; the fields not given are 1
DayWrite(p) ==
    IF p.day = <<>> THEN <<>>
    ELSE DayChecked(p, DayOrdered(p, p.day \o [i \in 1..(3 - Len(p.day)) |-> 1]))

\* <<milliseconds since midnight>>, or <<>>; 24:00:00.000 is allowed
TimeChecked(hour, comp) ==
    IF \/ /\ IsHour(hour)
          /\ IsMinute(comp[2])
          /\ IsSecond(comp[3])
          /\ IsMillisecond(comp[4])
       \/ /\ hour = 24
          /\ comp[2] = 0
          /\ comp[3] = 0
          /\ comp[4] = 0
    THEN <<hour * 3600000 + comp[2] * 60000 + comp[3] * 1000 + comp[4]>>
    ELSE <<>>

\* TimeComposer::Write; the fields not given are 0, and am or pm applies to
\* an hour of 0..12
TimeWrite(p) ==
    IF p.hoff = -1 THEN TimeChecked(PadTime(p.time)[1], PadTime(p.time))
    ELSE IF ~IsHour12(PadTime(p.time)[1]) THEN <<>>
    ELSE TimeChecked((PadTime(p.time)[1] % 12) + p.hoff, PadTime(p.time))

\* hour * 3600 + minute * 60 as an unsigned 32-bit number, in two limbs of
\* 16 bits <<high, low>>: the product wraps around at 2^32
ZoneSeconds(hour, minute) ==
    <<((((hour \div 65536) * 3600) % 65536)
         + (((hour % 65536) * 3600 + minute * 60) \div 65536)) % 65536,
      ((hour % 65536) * 3600 + minute * 60) % 65536>>

\* the offset if it is at most 2^31 - 1 seconds, the largest small integer
ZoneChecked(sign, sec) ==
    IF sec[1] >= 32768 THEN <<>> ELSE <<"utc", sign * (sec[1] * 65536 + sec[2])>>

\* TimeZoneComposer::Write: <<"local">>, <<"utc", seconds ahead of UTC>>, or
\* <<>> for an offset too large; an hour or a minute not given is 0
ZoneWrite(p) ==
    IF p.tz.sign = 0 THEN <<"local">>
    ELSE ZoneChecked(p.tz.sign,
                     ZoneSeconds(IF p.tz.hour = -1 THEN 0 ELSE p.tz.hour,
                                 IF p.tz.minute = -1 THEN 0 ELSE p.tz.minute))

\* days from 1970-01-01 to y-m-d in the proleptic Gregorian calendar
DaysFromCivil(y, m, d) ==
    LET yy  == IF m <= 2 THEN y - 1 ELSE y
        era == yy \div 400
        yoe == yy - era * 400
        mp  == IF m > 2 THEN m - 3 ELSE m + 9
        doy == (153 * mp + 2) \div 5 + d - 1
        doe == yoe * 365 + yoe \div 4 - yoe \div 100 + doy
    IN  era * 146097 + doe - 719468

\* MakeDay: the day number of the first of the month, plus the day given, so
\* that a day past the end of its month runs on into the next
MakeDay(year, month, day) == DaysFromCivil(year, month, 1) + day - 1

\* days * 86400000 ms, as limbs
DaysToMs(days) ==
    LET dh == days \div 10000
        dl == days % 10000
    IN  Num(dh * 864 + (dl * 864) \div 10000, ((dl * 864) % 10000) * 100000)

\* seconds * 1000 ms, as limbs
SecondsToMs(sec) == Num(sec \div 1000000, (sec % 1000000) * 1000)

\* TimeClip: a time value is at most 8.64 * 10^15 ms from the epoch
TimeClip(x) ==
    IF x.hi >= -8640000 /\ (x.hi < 8640000 \/ (x.hi = 8640000 /\ x.lo = 0))
    THEN x ELSE NaN

\* the time value of a day, a time of day and a zone; the year is at most
\* a million from 0, and local time is zoneMinutes ahead of UTC
MakeDate(day, time, zone, zoneMinutes) ==
    IF day = <<>> \/ time = <<>> \/ zone = <<>> THEN NaN
    ELSE IF day[1] < -1000000 \/ day[1] > 1000000 THEN NaN
    ELSE TimeClip(NumAdd(NumAdd(DaysToMs(MakeDay(day[1], day[2], day[3])), Ms(time[1])),
                         NumNeg(SecondsToMs(IF zone[1] = "local"
                                            THEN zoneMinutes * 60 ELSE zone[2]))))

\* the time value of what the parsers collected
Written(c, zoneMinutes) ==
    IF ~c.ok THEN NaN
    ELSE MakeDate(DayWrite(c.p), TimeWrite(c.p), ZoneWrite(c.p), zoneMinutes)

\* Date.parse(s) where local time is zoneMinutes ahead of UTC
DateParse(s, zoneMinutes) == Written(Collect(s), zoneMinutes)

\* the loop body of lines 117-121 on one element
ParseTime(time) == IF IsString(time) THEN DateParse(Trim(time.s), tza) ELSE time

\* the loop of lines 116-122 on a whole array
ParseTimes(arr) == [i \in 1..Len(arr) |-> ParseTime(arr[i])]

\* number of Date.parse calls that loop makes
StringCount(arr) == Cardinality({i \in 1..Len(arr) : IsString(arr[i])})

-----------------------------------------------------------------------------
(* The feature object.                                                     *)
(*   hasProps              whether feature.properties is set               *)
(*   keys                  the own properties among the four time keys     *)
(*   coordTimes, times, linestringTimestamps, time                         *)
(*                         their values (read only when the key is there)  *)
(*   hasGeometry           whether feature.geometry is an object (FALSE:   *)
(*                         it is null)                                     *)
(*   geomType, coordinates geometry.type and geometry.coordinates, an      *)
(*                         array whose elements are numbers (a bare        *)
(*                         position [lon, lat]) or arrays of numbers (a    *)
(*                         list of positions, some possibly empty)         *)
(*   cache                 what feature.featureTimes is: "unset", or the   *)
(*                         property array it is the same object as, or     *)
(*                         "own" for an array of its own, held in own      *)

ArrayKeys == {"coordTimes", "times", "linestringTimestamps"}

\* variant: tests featureTimes.length, so an empty array counts as not cached
IsCached_EmptyIsMissing(f) ==
    /\ f.cache # "unset"
    /\ (IF f.cache = "own" THEN f.own ELSE f[f.cache]) # <<>>

\* line 101: !feature.featureTimes is false once the slot holds an array, even
\* an empty one
IsCached(f) == f.cache # "unset"

\* the array feature.featureTimes refers to
FeatureTimes(f) == IF f.cache = "own" THEN f.own ELSE f[f.cache]

\* lines 102-114: which array becomes feature.featureTimes
ResolveSource(f) ==
    IF ~f.hasProps THEN "own"
    ELSE IF "coordTimes" \in f.keys THEN "coordTimes"
    ELSE IF "times" \in f.keys THEN "times"
    ELSE IF "linestringTimestamps" \in f.keys THEN "linestringTimestamps"
    ELSE "own"

\* variant: wraps properties.time without testing hasOwnProperty('time'), so a
\* missing time gives [undefined] (undefined compares like NaN)
OwnArray_AlwaysWrap(f) ==
    IF f.hasProps /\ "time" \in f.keys THEN <<f.time>> ELSE <<NaN>>

\* the fresh array of lines 103, 111 and 113

OwnArray(f) ==
    IF f.hasProps /\ "time" \in f.keys THEN <<f.time>> ELSE <<>>

\* the array that is about to be parsed by a call of _getFeatureTimes
SourceArray(f) ==
    IF ResolveSource(f) = "own" THEN OwnArray(f) ELSE f[ResolveSource(f)]

\* the feature object after _getFeatureTimes(feature): the parse loop writes
\* into feature.featureTimes, which for an array key is the property's array
GetFeatureTimes(f) ==
    IF IsCached(f) THEN f
    ELSE IF ResolveSource(f) = "own"
         THEN [f EXCEPT !.cache = "own", !.own = ParseTimes(OwnArray(f))]
         ELSE [f EXCEPT !.cache = ResolveSource(f),
                        ![ResolveSource(f)] = ParseTimes(f[ResolveSource(f)])]

\* Date.parse calls made by _getFeatureTimes(feature)
ParsesMade(f) == IF IsCached(f) THEN 0 ELSE StringCount(SourceArray(f))

\* resolutions of the time source made by _getFeatureTimes(feature)
ResolvesMade(f) == IF IsCached(f) THEN 0 ELSE 1

-----------------------------------------------------------------------------
(* _getFeatureBetweenDates                                                 *)

\* index_min = null, index_max = null
Null == -1

\* lines 128-130
EffectiveMin(minTime) == IF minTime = Zero THEN Sentinel ELSE minTime

\* line 140
IsOutOfRange(times, minTime, maxTime) ==
    JsGt(times[1], maxTime) \/ JsLt(times[Len(times)], minTime)

\* lines 145-154, from iteration i (0-based) on: <<index_min, index_max>>
RECURSIVE Scan(_, _, _, _, _)
Scan(times, minTime, maxTime, i, index_min) ==
    IF i >= Len(times) THEN <<index_min, Null>>
    ELSE LET im == IF index_min = Null /\ JsGt(times[i + 1], minTime)
                   THEN i ELSE index_min
         IN  IF JsGt(times[i + 1], maxTime) THEN <<im, i>>
             ELSE Scan(times, minTime, maxTime, i + 1, im)

\* lines 144-161: <<index_min, index_max>>
Indices(times, minTime, maxTime) ==
    LET raw == IF JsGt(times[Len(times)], minTime)
               THEN Scan(times, minTime, maxTime, 0, Null)
               ELSE <<Null, Null>>
    IN  << IF raw[1] = Null THEN 0 ELSE raw[1],
           IF raw[2] = Null THEN Len(times) ELSE raw[2] >>

\* Array.prototype.slice(from, to) with 0 <= from, to
Slice(arr, from, to) ==
    SubSeq(arr, from + 1, IF to < Len(arr) THEN to ELSE Len(arr))

\* an element of a coordinates array: a number, or an array of numbers
NumberCoord(n) == [t |-> "num", n |-> n, a |-> <<>>]

ArrayCoord(a) == [t |-> "arr", n |-> 0, a |-> a]

\* line 163, the truthiness of c.length: a number has no length (undefined),
\* an empty array has length 0
HasLength(c) == c.t = "arr" /\ Len(c.a) > 0

NoResult ==
    [kind |-> "none", times |-> <<>>, index_min |-> Null, index_max |-> Null,
     type |-> "", coordinates |-> <<>>]

\* lines 162-175: the returned object (its properties are feature.properties
\* itself).  Line 163 reads feature.geometry.coordinates[0].length: a
\* TypeError when geometry is null and when coordinates is empty (its [0] is
\* undefined)
NewFeature(f, times, idx) ==
    IF ~f.hasGeometry \/ f.coordinates = <<>>
    THEN [NoResult EXCEPT !.kind = "TypeError", !.times = times,
                          !.index_min = idx[1], !.index_max = idx[2]]
    ELSE [kind |-> "feature", times |-> times,
          index_min |-> idx[1], index_max |-> idx[2],
          type |-> f.geomType,
          coordinates |-> IF HasLength(f.coordinates[1])
                          THEN Slice(f.coordinates, idx[1], idx[2])
                          ELSE f.coordinates]

\* the value returned by _getFeatureBetweenDates(feature, minTime, maxTime):
\* kind "same" is the feature object itself, "null" is null
GetFeatureBetweenDates(f, minTime, maxTime) ==
    LET times == FeatureTimes(GetFeatureTimes(f))
        min   == EffectiveMin(minTime)
    IN  IF Len(times) = 0
        THEN [NoResult EXCEPT !.kind = "same"]
        ELSE IF IsOutOfRange(times, min, maxTime)
        THEN [NoResult EXCEPT !.kind = "null", !.times = times]
        ELSE NewFeature(f, times, Indices(times, min, maxTime))

-----------------------------------------------------------------------------
(* The features and windows the layer is driven with.                      *)

\* "\t1970-01-02\u00A0": a date-only string, UTC, between a TAB and a NBSP
IsoJan2 == <<9, 49, 57, 55, 48, 45, 48, 49, 45, 48, 50, 160>>

\* "1900-01-01T00:00": a date-time string without a zone, local time, below
\* the sentinel
Local1900 == <<49, 57, 48, 48, 45, 48, 49, 45, 48, 49, 84, 48, 48, 58, 48, 48>>

\* "bogus"
NotADate == <<98, 111, 103, 117, 115>>

\* the time zones tried: UTC and UTC+01:00
LocalOffsets == {0, 60}

NumTimes ==
    {Sentinel, Ms(-86400000), Zero, Ms(86400000), Ms(172800000)}

StrTimes == {Str(IsoJan2), Str(Local1900), Str(NotADate)}

WindowTimes ==
    {Zero, Ms(43200000), Ms(86400000), Ms(129600000), Ms(172800000)}

SeqsUpTo(S, n) == UNION {[1..k -> S] : k \in 0..n}

\* timestamp arrays as given: epoch-ms numbers, or ISO strings among numbers
RawArrays == SeqsUpTo(NumTimes, MaxLen) \cup SeqsUpTo(StrTimes \cup {Zero}, MaxLen)

\* the arrays tried under the keys other than times alone
ShortArrays == SeqsUpTo(NumTimes \cup StrTimes, 1)

\* the array of a key that is present but loses the resolution
Decoy == <<Ms(129600000)>>

\* the position [10 i, -10 i]
Position(i) == ArrayCoord(<<10 * i, 0 - 10 * i>>)

Positions(n) == [i \in 1..n |-> Position(i)]

\* the sets of time keys a feature's properties carry
KeySets ==
    {{}, {"times"}, {"coordTimes"}, {"linestringTimestamps"}, {"time"},
     {"coordTimes", "times"}, {"times", "linestringTimestamps", "time"}}

BlankFeature ==
    [hasProps |-> FALSE, keys |-> {}, coordTimes |-> <<>>, times |-> <<>>,
     linestringTimestamps |-> <<>>, time |-> Zero,
     hasGeometry |-> TRUE, geomType |-> "LineString",
     coordinates |-> Positions(2),
     cache |-> "unset", own |-> <<>>]

\* a feature with properties: the winning array key holds raw, the other
\* array keys present hold Decoy, time holds t
WithProps(keys, raw, t) ==
    LET win == ResolveSource([hasProps |-> TRUE, keys |-> keys])
    IN  [BlankFeature EXCEPT
            !.hasProps = TRUE,
            !.keys = keys,
            !.coordTimes =
                IF "coordTimes" \notin keys THEN <<>>
                ELSE IF win = "coordTimes" THEN raw ELSE Decoy,
            !.times =
                IF "times" \notin keys THEN <<>>
                ELSE IF win = "times" THEN raw ELSE Decoy,
            !.linestringTimestamps =
                IF "linestringTimestamps" \notin keys THEN <<>>
                ELSE IF win = "linestringTimestamps" THEN raw ELSE Decoy,
            !.time = t]

\* a list of k positions whose first is the empty array
EmptyFirst(k) == [i \in 1..k |-> IF i = 1 THEN ArrayCoord(<<>>) ELSE Position(i)]

\* the geometries line 163 cannot slice: coordinates [], a list of n
\* positions (at least one) whose first is empty, and geometry: null
Malformed(n) ==
    {[hasGeometry |-> TRUE, geomType |-> "LineString", coordinates |-> <<>>],
     [hasGeometry |-> TRUE, geomType |-> "LineString",
      coordinates |-> EmptyFirst(IF n >= 1 THEN n ELSE 1)],
     [hasGeometry |-> FALSE, geomType |-> "", coordinates |-> <<>>]}

\* geometries for a feature with n timestamps: a bare Point [10, -10]; lists
\* of n - 1, n and n + 1 positions (at least one, at most MaxLen); and, for
\* all but the longest time sequences, the malformed ones
Geometries(n) ==
    {[hasGeometry |-> TRUE, geomType |-> "Point",
      coordinates |-> <<NumberCoord(10), NumberCoord(0 - 10)>>]}
    \cup {[hasGeometry |-> TRUE, geomType |-> "LineString",
           coordinates |-> Positions(k)] :
            k \in {j \in {n - 1, n, n + 1} : j >= 1 /\ j <= MaxLen}}
    \cup (IF n < MaxLen THEN Malformed(n) ELSE {})

WithGeometry(f, g) ==
    [f EXCEPT !.hasGeometry = g.hasGeometry, !.geomType = g.geomType,
              !.coordinates = g.coordinates]

Features ==
    {WithGeometry(BlankFeature, g) : g \in Geometries(0)}
    \cup UNION {{WithGeometry(WithProps({"times"}, raw, Zero), g) :
                    g \in Geometries(Len(raw))} :
                 raw \in RawArrays}
    \cup UNION {{WithGeometry(WithProps(ks, raw, Zero), g) :
                    g \in Geometries(Len(raw))} :
                 ks \in {k \in KeySets : k \cap ArrayKeys # {}} \ {{"times"}},
                 raw \in ShortArrays}
    \cup {WithGeometry(WithProps(ks, <<>>, t), g) :
            ks \in {k \in KeySets : k \cap ArrayKeys = {}},
            t \in NumTimes \cup StrTimes, g \in Geometries(1)}

-----------------------------------------------------------------------------
(* The JavaScript layer as a state machine: each tick of the time          *)
(* dimension calls _getFeatureBetweenDates on the feature with the window  *)
(* of the tick; the layer's other code calls _getFeatureTimes directly.    *)

PyIdle ==
    /\ dataKind = "none"
    /\ rawData = <<>>
    /\ embed = FALSE
    /\ selfData = <<>>
    /\ pc = "off"
    /\ features = <<>>
    /\ fi = 0
    /\ pj = 0
    /\ bounds = <<>>
    /\ error = "none"

\* the zones a feature is tried in: only Date.parse reads the zone, so a
\* feature none of whose timestamps is a string is tried in UTC alone
ZonesFor(f) ==
    IF StringCount(SourceArray(f)) > 0 THEN LocalOffsets ELSE {0}

Init ==
    /\ feature \in Features
    /\ original = feature
    /\ window = <<Zero, Zero>>
    /\ result = NoResult
    /\ resolveCount = 0
    /\ parseCount = 0
    /\ lastParsed = 0
    /\ ticks = 0
    /\ tza \in ZonesFor(feature)
    /\ PyIdle

Tick(minTime, maxTime) ==
    /\ ticks < MaxTicks
    /\ feature' = GetFeatureTimes(feature)
    /\ window' = <<minTime, maxTime>>
    /\ result' = GetFeatureBetweenDates(feature, minTime, maxTime)
    /\ resolveCount' = resolveCount + ResolvesMade(feature)
    /\ parseCount' = parseCount + ParsesMade(feature)
    /\ lastParsed' = ParsesMade(feature)
    /\ ticks' = ticks + 1
    /\ UNCHANGED <<original, tza, pyVars>>

CallGetFeatureTimes ==
    /\ ticks < MaxTicks
    /\ feature' = GetFeatureTimes(feature)
    /\ result' = [NoResult EXCEPT !.kind = "times",
                                  !.times = FeatureTimes(GetFeatureTimes(feature))]
    /\ resolveCount' = resolveCount + ResolvesMade(feature)
    /\ parseCount' = parseCount + ParsesMade(feature)
    /\ lastParsed' = ParsesMade(feature)
    /\ ticks' = ticks + 1
    /\ UNCHANGED <<original, window, tza, pyVars>>

Next ==
    \/ \E minTime \in WindowTimes, maxTime \in WindowTimes : Tick(minTime, maxTime)
    \/ CallGetFeatureTimes

Spec == Init /\ [][Next]_vars

-----------------------------------------------------------------------------
(* The Python side.  A GeoJSON document is [shape, features, geometry]:    *)
(*   shape "FeatureCollection": features is the sequence of the features'  *)
(*   geometries, each [depth, coordinates]: depth 0 a bare position held   *)
(*   as the one-element sequence of that position, depth 1 a list of       *)
(*   positions;                                                            *)
(*   shape "Feature" or "Geometry": geometry is the one geometry.          *)
(* The data given to __init__ is [text, doc]: text "dict" for a dict (doc  *)
(* is the dict), "json" for a file holding JSON (doc is what the text      *)
(* denotes), "garbage" for a file that does not hold JSON, "url" for a     *)
(* str.  self.data has the same form.                                      *)

None == [set |-> FALSE, v |-> 0]

Some(x) == [set |-> TRUE, v |-> x]

\* variant: the new value replaces the old one
none_min_LastWins(x, y) == IF y.set THEN y ELSE x

\* branca.utilities.none_min, as imported on line 8
none_min(x, y) ==
    IF ~x.set THEN y
    ELSE IF ~y.set THEN x
    ELSE IF x.v <= y.v THEN x ELSE y

\* branca.utilities.none_max, as imported on line 8
none_max(x, y) ==
    IF ~x.set THEN y
    ELSE IF ~y.set THEN x
    ELSE IF x.v >= y.v THEN x ELSE y

\* branca.utilities.iter_points on a geometry's coordinates: the positions
\* at the leaves, in order
iter_points(g) == g.coordinates

\* line 310
UnsetBounds == <<<<None, None>>, <<None, None>>>>

\* lines 313-322: point is [lon, lat]
FoldPoint(b, point) ==
    << << none_min(b[1][1], Some(point[2])), none_min(b[1][2], Some(point[1])) >>,
       << none_max(b[2][1], Some(point[2])), none_max(b[2][2], Some(point[1])) >> >>

\* variant: a dict is not embedded
InitEmbed_FileOnly(kind) == kind = "file"

\* lines 229-236: self.embed
InitEmbed(kind) == kind \in {"file", "dict"}

\* lines 231, 234 and 237: self.data is data.read(), json.dumps(data) or data
InitData(kind, data) ==
    IF kind = "dict" THEN [text |-> "json", doc |-> data.doc] ELSE data

\* lines 303-308: data['features'], a bare feature or geometry being wrapped
\* into a collection of one feature
NormalisedFeatures(doc) ==
    IF doc.shape = "FeatureCollection" THEN doc.features ELSE <<doc.geometry>>

BoundsUnavailable == "ValueError: Cannot compute bounds of non-embedded GeoJSON."

PointValues == {<<-10, -5>>, <<0, 10>>, <<10, 0>>}

PyGeometries ==
    {[depth |-> 0, coordinates |-> <<pt>>] : pt \in PointValues}
    \cup {[depth |-> 1, coordinates |-> c] : c \in SeqsUpTo(PointValues, MaxPoints)}

NoGeometry == [depth |-> 1, coordinates |-> <<>>]

Documents ==
    {[shape |-> "FeatureCollection", features |-> fs, geometry |-> NoGeometry] :
        fs \in SeqsUpTo(PyGeometries, MaxFeatures)}
    \cup {[shape |-> sh, features |-> <<>>, geometry |-> g] :
            sh \in {"Feature", "Geometry"}, g \in PyGeometries}

NoDocument == [shape |-> "none", features |-> <<>>, geometry |-> NoGeometry]

\* what __init__ may be given as data of each kind
DataValues(kind) ==
    IF kind = "str" THEN {[text |-> "url", doc |-> NoDocument]}
    ELSE IF kind = "dict" THEN {[text |-> "dict", doc |-> d] : d \in Documents}
    ELSE {[text |-> "json", doc |-> d] : d \in Documents}
         \cup {[text |-> "garbage", doc |-> NoDocument]}

JsIdle ==
    /\ feature = BlankFeature
    /\ original = BlankFeature
    /\ window = <<Zero, Zero>>
    /\ result = NoResult
    /\ resolveCount = 0
    /\ parseCount = 0
    /\ lastParsed = 0
    /\ ticks = 0
    /\ tza = 0

\* the object after TimestampedGeoJson(data)
InitBounds ==
    /\ dataKind \in {"file", "dict", "str"}
    /\ rawData \in DataValues(dataKind)
    /\ embed = InitEmbed(dataKind)
    /\ selfData = InitData(dataKind, rawData)
    /\ pc = "ready"
    /\ features = <<>>
    /\ fi = 0
    /\ pj = 0
    /\ bounds = <<>>
    /\ error = "none"
    /\ JsIdle

\* lines 299-300
RaiseNotEmbedded ==
    /\ pc = "ready"
    /\ ~embed
    /\ pc' = "raised"
    /\ error' = BoundsUnavailable
    /\ UNCHANGED <<dataKind, rawData, embed, selfData, features, fi, pj, bounds, jsVars>>

\* line 302 on text that is not JSON
RaiseNotJson ==
    /\ pc = "ready"
    /\ embed
    /\ selfData.text # "json"
    /\ pc' = "raised"
    /\ error' = "JSONDecodeError"
    /\ UNCHANGED <<dataKind, rawData, embed, selfData, features, fi, pj, bounds, jsVars>>

\* lines 302-310
StartFold ==
    /\ pc = "ready"
    /\ embed
    /\ selfData.text = "json"
    /\ features' = NormalisedFeatures(selfData.doc)
    /\ bounds' = UnsetBounds
    /\ fi' = 1
    /\ pj' = 1
    /\ pc' = "fold"
    /\ UNCHANGED <<dataKind, rawData, embed, selfData, error, jsVars>>

\* lines 312-322: one iteration of the inner loop
FoldNextPoint ==
    /\ pc = "fold"
    /\ fi <= Len(features)
    /\ pj <= Len(iter_points(features[fi]))
    /\ bounds' = FoldPoint(bounds, iter_points(features[fi])[pj])
    /\ pj' = pj + 1
    /\ UNCHANGED <<dataKind, rawData, embed, selfData, pc, features, fi, error, jsVars>>

\* line 311: on to the next feature
NextFeature ==
    /\ pc = "fold"
    /\ fi <= Len(features)
    /\ pj > Len(iter_points(features[fi]))
    /\ fi' = fi + 1
    /\ pj' = 1
    /\ UNCHANGED <<dataKind, rawData, embed, selfData, pc, features, bounds, error, jsVars>>

\* line 323
ReturnBounds ==
    /\ pc = "fold"
    /\ fi > Len(features)
    /\ pc' = "done"
    /\ UNCHANGED <<dataKind, rawData, embed, selfData, features, fi, pj, bounds, error, jsVars>>

NextBounds ==
    \/ RaiseNotEmbedded
    \/ RaiseNotJson
    \/ StartFold
    \/ FoldNextPoint
    \/ NextFeature
    \/ ReturnBounds

SpecBounds == InitBounds /\ [][NextBounds]_vars

\* lines 312-322 on the points of one geometry
RECURSIVE FoldPoints(_, _)
FoldPoints(b, pts) ==
    IF pts = <<>> THEN b ELSE FoldPoints(FoldPoint(b, Head(pts)), Tail(pts))

\* lines 311-322 on a sequence of geometries
RECURSIVE FoldFeatures(_, _)
FoldFeatures(b, fs) ==
    IF fs = <<>> THEN b
    ELSE FoldFeatures(FoldPoints(b, iter_points(Head(fs))), Tail(fs))

\* lines 310-323: the bounds returned for data['features'] = fs
SelfBounds(fs) == FoldFeatures(UnsetBounds, fs)

-----------------------------------------------------------------------------
(* Vocabulary of the properties.                                           *)

\* the last call was _getFeatureBetweenDates
Ticked == result.kind \in {"same", "null", "feature", "TypeError"}

\* line 163 has nothing to read the length of
HasNoFirstCoordinate(f) == ~f.hasGeometry \/ f.coordinates = <<>>

\* the cached time sequence of the feature
T == IF feature.cache = "unset" THEN <<>> ELSE FeatureTimes(feature)

\* the window's lower bound, 0 standing for the sentinel
LowerBound == IF window[1] = Zero THEN Sentinel ELSE window[1]

AllNumbers(ts) == \A i \in 1..Len(ts) : ts[i].t = "num"

IsNonDecreasing(ts) ==
    /\ AllNumbers(ts)
    /\ \A i \in 1..(Len(ts) - 1) : JsLe(ts[i], ts[i + 1])

\* the 1-based positions of the half-open index range of the result
Included == {i \in 1..Len(T) : result.index_min < i /\ i <= result.index_max}

\* the feature has a list of positions, as many as it has times
IsFlatAndAligned ==
    /\ feature.hasGeometry
    /\ \A i \in 1..Len(feature.coordinates) : HasLength(feature.coordinates[i])
    /\ Len(feature.coordinates) = Len(T)

HasNoTimeKeys(f) == ~f.hasProps \/ f.keys = {}

-----------------------------------------------------------------------------
(* C1.  For a non-empty non-decreasing time sequence and a window [a, b],  *)
(* a <= b, a # 0, that does not put the feature out of range, the result   *)
(* on a flat feature is the slice whose indices are exactly those i with   *)
(* T[i] > a and T[i] <= b, also when T[last] = a.                          *)
C1_SliceIsExactlyTheWindow ==
    (/\ result.kind = "feature"
     /\ IsFlatAndAligned
     /\ IsNonDecreasing(T)
     /\ JsLe(window[1], window[2])
     /\ window[1] # Zero)
    => /\ Included = {i \in 1..Len(T) :
                        JsGt(T[i], window[1]) /\ JsLe(T[i], window[2])}
       /\ result.coordinates =
            [k \in 1..(result.index_max - result.index_min) |->
                feature.coordinates[result.index_min + k]]

\* C1 away from the boundary T[last] = a
C1_ExactUnlessLastEqualsMin ==
    (/\ result.kind = "feature"
     /\ IsFlatAndAligned
     /\ IsNonDecreasing(T)
     /\ JsLe(window[1], window[2])
     /\ window[1] # Zero
     /\ T[Len(T)] # window[1])
    => Included = {i \in 1..Len(T) :
                     JsGt(T[i], window[1]) /\ JsLe(T[i], window[2])}

(* C2.  With a non-empty time sequence, _getFeatureBetweenDates returns    *)
(* null exactly when times[0] > maxTime or times[last] < minTime (minTime  *)
(* after the substitution of the sentinel for 0), and a Feature in every   *)
(* other case.                                                             *)
C2_NullIffOutOfRange ==
    (Ticked /\ T # <<>>)
    => /\ (result.kind = "null")
            <=> (JsGt(T[1], window[2]) \/ JsLt(T[Len(T)], LowerBound))
       /\ result.kind \in {"null", "feature"}

\* what holds of C2: null exactly when out of range; in range the call
\* returns a Feature unless geometry is null or coordinates is empty, where
\* it throws
C2_NullIffOutOfRangeElseFeatureOrThrow ==
    (Ticked /\ T # <<>>)
    => /\ (result.kind = "null")
            <=> (JsGt(T[1], window[2]) \/ JsLt(T[Len(T)], LowerBound))
       /\ result.kind # "null"
            => result.kind = (IF HasNoFirstCoordinate(feature)
                              THEN "TypeError" ELSE "feature")

(* C3.  A feature without properties, or with none of coordTimes, times,   *)
(* linestringTimestamps and time, has the empty time sequence, and every   *)
(* call returns that very feature, its geometry and properties untouched.  *)
C3_UntimedFeatureReturnedAsIs ==
    (HasNoTimeKeys(original) /\ ticks > 0)
    => /\ T = <<>>
       /\ result.times = <<>>
       /\ Ticked => result.kind = "same"
       /\ feature = [original EXCEPT !.cache = "own"]

C3_Witness ==
    /\ HasNoTimeKeys(original)
    /\ original.hasProps
    /\ ticks >= 2
    /\ result.kind = "same"
    /\ window[1] # Zero

(* C4.  With minTime = 0, every feature whose non-decreasing   *)
(* time sequence holds negative values, and every maxTime >= times[0]: the *)
(* result is a Feature and every index i with T[i] <= maxTime is in it.    *)
C4_ZeroMeansNoLowerBound ==
    (/\ Ticked
     /\ window[1] = Zero
     /\ T # <<>>
     /\ IsNonDecreasing(T)
     /\ JsLt(T[1], Zero)
     /\ JsLe(T[1], window[2]))
    => /\ result.kind = "feature"
       /\ \A i \in 1..Len(T) : JsLe(T[i], window[2]) => i \in Included

\* what holds of C4: the same for the features whose times are all later
\* than the sentinel -999999999999 and whose coordinates have a first element
C4_ZeroMeansSentinelLowerBound ==
    (/\ Ticked
     /\ window[1] = Zero
     /\ T # <<>>
     /\ IsNonDecreasing(T)
     /\ JsLt(T[1], Zero)
     /\ JsLe(T[1], window[2])
     /\ \A i \in 1..Len(T) : JsGt(T[i], Sentinel)
     /\ ~HasNoFirstCoordinate(feature))
    => /\ result.kind = "feature"
       /\ \A i \in 1..Len(T) : JsLe(T[i], window[2]) => i \in Included

(* C5.  Over any sequence of calls on one feature object the time source   *)
(* is resolved at most once; once the slot is set, a call parses nothing,  *)
(* leaves the cached sequence as it is and returns it, empty or not.       *)
C5_ResolvedAndParsedOnce ==
    [][/\ resolveCount' <= 1
       /\ feature.cache # "unset"
            => /\ parseCount' = parseCount
               /\ lastParsed' = 0
               /\ resolveCount' = resolveCount
               /\ feature' = feature
               /\ result'.kind \in {"times", "feature"} => result'.times = T]_vars

C5_Witness ==
    /\ ticks >= 2
    /\ resolveCount = 1
    /\ parseCount >= 2
    /\ lastParsed = 0
    /\ result.kind = "feature"

(* C6.  After any call the feature's geometry and properties, the raw      *)
(* timestamp array included, are as they were given; only the cached-times *)
(* slot has been created.                                                  *)
C6_InputNeverMutated ==
    ticks > 0 => [feature EXCEPT !.cache = "unset", !.own = <<>>] = original

(* C7.  A feature that is not a Point and whose time sequence and          *)
(* coordinate sequence differ in length is reported as a                   *)
(* TimeLengthMismatch by the window filter.                                *)
C7_LengthMismatchIsReported ==
    (/\ result.kind \notin {"none", "times"}
     /\ feature.hasGeometry
     /\ feature.geomType # "Point"
     /\ T # <<>>
     /\ Len(T) # Len(feature.coordinates))
    => result.kind = "TimeLengthMismatch"

(* C10.  Whatever the order of the times and of the window's ends, a call  *)
(* that does not return null has 0 <= index_min <= index_max <=            *)
(* len(times), and returns a Feature, not null or an error, also when the  *)
(* slice is empty.                                                         *)
C10_IndicesWellFormed ==
    (Ticked /\ T # <<>> /\ result.kind # "null")
    => /\ result.kind = "feature"
       /\ 0 <= result.index_min
       /\ result.index_min <= result.index_max
       /\ result.index_max <= Len(T)

\* what holds of C10: the order of the indices, whether line 163 then throws
\* or not
C10_IndexOrder ==
    (Ticked /\ T # <<>> /\ result.kind # "null")
    => /\ 0 <= result.index_min
       /\ result.index_min <= result.index_max
       /\ result.index_max <= Len(T)

-----------------------------------------------------------------------------
(* Vocabulary of the properties of the Python side.                        *)

\* all points of a sequence of geometries, in the order they are folded
RECURSIVE AllPoints(_)
AllPoints(fs) ==
    IF fs = <<>> THEN <<>> ELSE iter_points(Head(fs)) \o AllPoints(Tail(fs))

IndexPermutations(n) == {f \in [1..n -> 1..n] : \A i, j \in 1..n : f[i] = f[j] => i = j}

Permuted(sq, f) == [i \in 1..Len(sq) |-> sq[f[i]]]

Swapped(sq, i, j) ==
    [k \in 1..Len(sq) |-> IF k = i THEN sq[j] ELSE IF k = j THEN sq[i] ELSE sq[k]]

Least(S) == CHOOSE x \in S : \A y \in S : x <= y

Greatest(S) == CHOOSE x \in S : \A y \in S : x >= y

\* the box of a set of [lon, lat] points, which no order enters
BoxOf(P) ==
    IF P = {} THEN UnsetBounds
    ELSE << << Some(Least({pt[2] : pt \in P})), Some(Least({pt[1] : pt \in P})) >>,
            << Some(Greatest({pt[2] : pt \in P})), Some(Greatest({pt[1] : pt \in P})) >> >>

\* box c is box b, or wider
Widens(b, c) ==
    /\ \A k \in 1..2 : b[1][k].set => (c[1][k].set /\ c[1][k].v <= b[1][k].v)
    /\ \A k \in 1..2 : b[2][k].set => (c[2][k].set /\ c[2][k].v >= b[2][k].v)

\* b is what the fold gives on fs in every order of the features and of
\* the points
IsOrderIndependent(fs, b) ==
    /\ LET pts == AllPoints(fs) IN b = BoxOf({pts[i] : i \in 1..Len(pts)})
    /\ \A f \in IndexPermutations(Len(fs)) : SelfBounds(Permuted(fs, f)) = b
    /\ LET pts == AllPoints(fs)
       IN  \A i \in 1..Len(pts) : \A j \in (i + 1)..Len(pts) :
                FoldPoints(UnsetBounds, Swapped(pts, i, j)) = b

(* C8.  _get_self_bounds raises the bounds-unavailable ValueError exactly  *)
(* when the data was neither a file nor a dict (embed is False), and then  *)
(* it has computed nothing; with a file or a dict it never raises it.      *)
C8_BoundsUnavailableIffNotEmbedded ==
    /\ embed <=> dataKind \in {"file", "dict"}
    /\ pc \in {"raised", "fold", "done"}
        => /\ (error = BoundsUnavailable) <=> dataKind \notin {"file", "dict"}
           /\ error = BoundsUnavailable
                => (pc = "raised" /\ bounds = <<>> /\ features = <<>>)

C8_Witness ==
    /\ pc = "raised"
    /\ error = BoundsUnavailable
    /\ dataKind = "str"

(* C9.  The box _get_self_bounds returns is the same for every order of    *)
(* the features and of the points; while folding, the box only widens, and *)
(* the first point sets all four bounds.                                   *)
C9_BoundsOrderIndependent ==
    [][/\ (pc = "fold" /\ pc' = "fold") => Widens(bounds, bounds')
       /\ (pc = "fold" /\ pj' = pj + 1 /\ bounds = UnsetBounds)
            => bounds' = BoxOf({iter_points(features[fi])[pj]})
       /\ pc' = "done" => IsOrderIndependent(features', bounds')]_vars

C9_Witness ==
    /\ pc = "done"
    /\ Len(features) = 2
    /\ Len(AllPoints(features)) >= 3
    /\ SelfBounds(<<features[2], features[1]>>) = bounds
    /\ bounds[1][1].v < bounds[2][1].v
    /\ bounds[1][2].v < bounds[2][2].v
    /\ AllPoints(features)[1][2] > bounds[1][1].v
    /\ AllPoints(features)[1][2] < bounds[2][1].v

====
